---- MODULE Spec2Model ----
(***************************************************************************)
(* A model of dmitigr::str: the string transformators of transform.hpp     *)
(* (sparsed_string, eliminate_duplicates, trimmed) and the timepoint       *)
(* formatters of time.hpp (to_string_view, to_string_view_iso8601,         *)
(* to_string_view_us) with their thread-local scratch buffer.              *)
(*                                                                         *)
(* Characters are byte values (0..255): 48..57 are '0'..'9', 97..102 are   *)
(* 'a'..'f', 37 is '%', 43 '+', 45 '-', 46 '.', 58 ':', 84 'T', 0 is NUL.  *)
(* A std::string or std::string_view is a sequence of bytes; offsets into  *)
(* it are 0-based as in the source, so the byte at offset i is s[i + 1].   *)
(***************************************************************************)
EXTENDS Integers, Sequences, FiniteSets, TLC

VARIABLES
  op,        \* the transform.hpp function applied last ("none" before the first)
  arg_str,   \* its string argument (input / str)
  arg_null,  \* whether input.data() was null
  arg_fmt,   \* its Byte_format argument
  arg_delim, \* its delimiter argument
  arg_trim,  \* its Trim argument
  ret_kind,  \* "none", "value" (returned) or "invalid_argument" (thrown)
  ret_str,   \* the returned std::string (or str after an in-place function)
  ret_view,  \* the [pos, len] subview returned by the string_view overload
  pc,        \* per thread: where it is in a time.hpp call ("idle" outside one)
  cur,       \* per thread: the call in progress, with what its strftime met
  buf,       \* per buffer: the bytes of the thread_local char buf[] up to the last
             \* one stored so far; those after it are the zeros it started with
  stored,    \* per thread: the offsets of its buffer that hold a byte its call in progress stored
  result_size, \* per thread: result.size() of the call's string_view (its data() is buf)
  oob,       \* per thread: the offsets outside buf its call has read or written
  ncalls     \* the calls started so far

strVars == <<op, arg_str, arg_null, arg_fmt, arg_delim, arg_trim,
             ret_kind, ret_str, ret_view>>

timeVars == <<pc, cur, buf, stored, result_size, oob, ncalls>>

vars == <<strVars, timeVars>>

\* ------------------------------------------------------------------ bounds

\* Longest byte sequence given to sparsed_string.
MaxLen == 4

\* Longest string given to eliminate_duplicates and trimmed.
MaxStr == 6

\* Longest delimiter.
MaxDelim == 2

\* The number of time.hpp calls a behaviour makes, over all threads.
MaxCalls == 2

\* The byte values sparsed_string's inputs are drawn from: NUL, a control
\* character below 16 ('\n', one significant hex digit), space, 'A' and 255.
Bytes == {0, 10, 32, 65, 255}

\* The bytes delimiters are drawn from: NUL and ':'.
DelimBytes == {0, 58}

\* The characters of the strings given to eliminate_duplicates and trimmed:
\* two whitespace characters ('\n', ' ') and two letters ('A', 'a').
StrBytes == {10, 32, 65, 97}

RECURSIVE SeqsUpTo(_, _)
SeqsUpTo(S, n) ==
  IF n = 0 THEN {<<>>}
  ELSE LET shorter == SeqsUpTo(S, n - 1)
       IN  shorter \cup {Append(s, c) : s \in {x \in shorter : Len(x) = n - 1}, c \in S}

Inputs == SeqsUpTo(Bytes, MaxLen)

Delimiters == SeqsUpTo(DelimBytes, MaxDelim)

Strings == SeqsUpTo(StrBytes, MaxStr)

\* ------------------------------------------------------------ sparsed_string

\* Byte_format: its two enumerators, and a value that is neither (a cast integer).
Byte_format == {"raw", "hex", "other"}

\* printf's %x digit, lowercase.
HexDigit(d) == IF d < 10 THEN 48 + d ELSE 87 + d

\* std::sprintf(res, "%02x", byte): two digits and the terminating NUL.
Sprintf02x(byte) == <<HexDigit(byte \div 16), HexDigit(byte % 16), 0>>

\* std::strncpy(dest, src, count): the count bytes it stores. It copies src up
\* to its first NUL and fills the rest of the count bytes with NUL.
Strncpy(src, count) ==
  [k \in 1..count |-> IF \E j \in 1..k : src[j] = 0 THEN 0 ELSE src[k]]

\* mem with chars stored from 0-based offset pos on.
WriteAt(mem, pos, chars) ==
  [k \in 1..Len(mem) |->
     IF k > pos /\ k <= pos + Len(chars) THEN chars[k - pos] ELSE mem[k]]

\* A lambda whose switch has a default label: an unknown format is taken as hex.
ElemFormat_DefaultsToHex(result_format) ==
  CASE result_format = "raw" -> [throws |-> FALSE, elem_sz |-> 1]
    [] OTHER                 -> [throws |-> FALSE, elem_sz |-> 2]

\* The lambda choosing (elem_sz, fmt_str); neither enumerator: it throws.
ElemFormat(result_format) ==
  CASE result_format = "raw" -> [throws |-> FALSE, elem_sz |-> 1]
    [] result_format = "hex" -> [throws |-> FALSE, elem_sz |-> 2]
    [] OTHER                 -> [throws |-> TRUE,  elem_sz |-> 0]

\* A raw loop that runs to the end of the input: the delimiter follows every
\* byte, the last one too.
RECURSIVE RawLoop_TrailingDelimiter(_, _, _, _)
RawLoop_TrailingDelimiter(result, input, delimiter, i) ==
  IF i # Len(input)
  THEN RawLoop_TrailingDelimiter(Append(result, input[i + 1]) \o delimiter,
                                 input, delimiter, i + 1)
  ELSE result

\* The raw loop: every byte but the last followed by the delimiter, then the last.
RECURSIVE RawLoop(_, _, _, _)
RawLoop(result, input, delimiter, i) ==
  IF i # Len(input) - 1
  THEN RawLoop(Append(result, input[i + 1]) \o delimiter, input, delimiter, i + 1)
  ELSE Append(result, input[i + 1])

\* The generic loop over result.data(): mem holds result's size() bytes and
\* the terminator slot after them.
RECURSIVE GenericLoop(_, _, _, _, _)
GenericLoop(mem, input, delimiter, elem_sz, i) ==
  IF i < Len(input)
  THEN LET res   == elem_sz * i + Len(delimiter) * i
           count == elem_sz
           m1    == WriteAt(mem, res, Sprintf02x(input[i + 1]))
           m2    == WriteAt(m1, res + count, Strncpy(delimiter, Len(delimiter)))
       IN  GenericLoop(m2, input, delimiter, elem_sz, i + 1)
  ELSE mem

\* sparsed_string(input, result_format, delimiter). A delimiter whose data()
\* is null has size 0 and is replaced by "": it is the empty delimiter.
sparsed_string(input_null, input, result_format, delimiter) ==
  IF input_null \/ input = <<>>
  THEN [kind |-> "value", str |-> <<>>]
  ELSE IF result_format = "raw"
  THEN IF delimiter = <<>>
       THEN [kind |-> "value", str |-> input]
       ELSE [kind |-> "value", str |-> RawLoop(<<>>, input, delimiter, 0)]
  ELSE LET ef == ElemFormat(result_format) IN
       IF ef.throws
       THEN [kind |-> "invalid_argument", str |-> <<>>]
       ELSE LET size == Len(input) * ef.elem_sz + Len(input) * Len(delimiter)
                mem  == GenericLoop([k \in 1..(size + 1) |-> 0], input,
                                    delimiter, ef.elem_sz, 0)
            IN  [kind |-> "value", str |-> SubSeq(mem, 1, size - Len(delimiter))]

\* ------------------------------------------------------ eliminate_duplicates

\* std::find(b, e, ch) over 0-based offsets: the first offset holding ch, or e.
RECURSIVE Find(_, _, _, _)
Find(str, b, e, ch) ==
  IF b = e THEN e
  ELSE IF str[b + 1] = ch THEN b
  ELSE Find(str, b + 1, e, ch)

\* A remove_if that counts the matches and moves nothing down.
RemoveIfLoop_NoShift(str, result, first, e, ch, new_size) ==
  [str |-> str,
   new_size |-> new_size - Cardinality({k \in first..(e - 1) : str[k + 1] = ch})]

\* std::remove_if(it, e, pred) past its first match: the bytes the predicate
\* rejects are moved down to result; each byte equal to ch decrements new_size.
RECURSIVE RemoveIfLoop(_, _, _, _, _, _)
RemoveIfLoop(str, result, first, e, ch, new_size) ==
  IF first = e THEN [str |-> str, new_size |-> new_size]
  ELSE IF str[first + 1] = ch
  THEN RemoveIfLoop(str, result, first + 1, e, ch, new_size - 1)
  ELSE RemoveIfLoop([str EXCEPT ![result + 1] = str[first + 1]],
                    result + 1, first + 1, e, ch, new_size)

RECURSIVE EliminateLoop(_, _, _)
EliminateLoop(str, new_size, i) ==
  IF i < new_size
  THEN LET ch == str[i + 1]
           b  == i + 1
           e  == new_size
           it == Find(str, b, e, ch)
       IN  IF it # e
           THEN LET r == RemoveIfLoop(str, it, it + 1, e, ch, new_size - 1)
                IN  EliminateLoop(r.str, r.new_size, i + 1)
           ELSE EliminateLoop(str, new_size, i + 1)
  ELSE SubSeq(str, 1, new_size)

eliminate_duplicates(str) == EliminateLoop(str, Len(str), 0)

\* ------------------------------------------------------------------ trimmed

\* enum class Trim as bit flags: none, lhs, rhs and all = lhs | rhs.
Trim == [none |-> 0, lhs |-> 1, rhs |-> 2, all |-> 3]

TrimValues == {Trim.none, Trim.lhs, Trim.rhs, Trim.all}

\* static_cast<bool>(trim & flag) for a one-bit flag.
TrimHas(trim, flag) == (trim \div flag) % 2 = 1

\* is_non_space<char>: not a whitespace character of the C locale.
is_non_space(c) == c \notin {9, 10, 11, 12, 13, 32}

\* find_if(b, e, is_non_space): the first offset of a non-space, or e.
RECURSIVE FindNonSpace(_, _, _)
FindNonSpace(str, b, e) ==
  IF b = e THEN e
  ELSE IF is_non_space(str[b + 1]) THEN b
  ELSE FindNonSpace(str, b + 1, e)

\* find_if(rbegin, rend, is_non_space).base(): one past the last non-space,
\* or the offset of begin when there is none.
RECURSIVE RFindNonSpaceBase(_, _)
RFindNonSpaceBase(str, e) ==
  IF e = 0 THEN 0
  ELSE IF is_non_space(str[e]) THEN e
  ELSE RFindNonSpaceBase(str, e - 1)

\* std::move(tb, te, b): the range [tb, te) moved down to offset b = 0.
MoveDown(str, tb, te) ==
  [k \in 1..Len(str) |-> IF k <= te - tb THEN str[tb + k] ELSE str[k]]

\* trimmed(std::string, Trim)
trimmed(str, trim) ==
  IF str = <<>> THEN str
  ELSE LET b  == 0
           e  == Len(str)
           tb == IF TrimHas(trim, Trim.lhs) THEN FindNonSpace(str, b, e) ELSE b
       IN  IF tb = e THEN <<>>
           ELSE LET te == IF TrimHas(trim, Trim.rhs) THEN RFindNonSpaceBase(str, e) ELSE e
                    new_size == te - tb
                IN  IF new_size # Len(str)
                    THEN SubSeq(IF tb # b THEN MoveDown(str, tb, te) ELSE str,
                                1, new_size)
                    ELSE str

\* A view overload that trims the right side whatever the flags say.
trimmed_view_AlwaysRhs(str, trim) ==
  IF str = <<>> THEN [pos |-> 0, len |-> 0]
  ELSE LET b  == 0
           e  == Len(str)
           tb == IF TrimHas(trim, Trim.lhs) THEN FindNonSpace(str, b, e) ELSE b
       IN  IF tb = e THEN [pos |-> 0, len |-> 0]
           ELSE [pos |-> tb - b, len |-> RFindNonSpaceBase(str, e) - tb]

\* trimmed(std::basic_string_view, Trim): the subview as [pos, len].
trimmed_view(str, trim) ==
  IF str = <<>> THEN [pos |-> 0, len |-> 0]
  ELSE LET b  == 0
           e  == Len(str)
           tb == IF TrimHas(trim, Trim.lhs) THEN FindNonSpace(str, b, e) ELSE b
       IN  IF tb = e THEN [pos |-> 0, len |-> 0]
           ELSE LET te == IF TrimHas(trim, Trim.rhs) THEN RFindNonSpaceBase(str, e) ELSE e
                    new_size == te - tb
                IN  [pos |-> tb - b, len |-> new_size]

\* The characters a subview [pos, len] of str shows.
ViewChars(str, v) == SubSeq(str, v.pos + 1, v.pos + v.len)

\* ------------------------------------------------------------------ time.hpp

\* detail::time_buf_size
time_buf_size == 128

\* The threads calling into time.hpp.
Threads == {1, 2}

\* static thread_local char buf[]: the buffer a thread's calls use is its own.
BufOf_Static(t) == 1

BufOf(t) == t

\* The timepoints, as time_since_epoch() in microseconds: 1.5 s before the
\* epoch, and 5 us after it.
TimePoints == {-1500000, 5}

\* What tzset() and localtime_r find for the local timezone: an offset from UTC
\* in seconds (+05:00, -03:30), or no determinable timezone (%z gives nothing).
Zones == {[known |-> TRUE, off |-> 18000], [known |-> TRUE, off |-> -12600],
          [known |-> FALSE, off |-> 0]}

\* Integer division truncating toward zero, as duration_cast does.
TruncDiv(a, b) == IF a >= 0 THEN a \div b ELSE -((-a) \div b)

\* Clock::to_time_t(tp), and duration_cast<seconds>(tse).count()
to_time_t(tse) == TruncDiv(tse, 1000000)

\* duration_cast<microseconds>(tse - sec).count()
us_count(tse) == tse - to_time_t(tse) * 1000000

\* The decimal digits of n >= 0.
RECURSIVE Dec(_)
Dec(n) == IF n < 10 THEN <<48 + n>> ELSE Append(Dec(n \div 10), 48 + (n % 10))

\* Two decimal digits, zero-padded (strftime's %m, %d, %H, %M, %S).
Dec2(n) == <<48 + (n \div 10), 48 + (n % 10)>>

\* localtime_r(&tp_time_t, &tm_val) for the days around the epoch: the
\* broken-down local time of time_t tt in zone z.
localtime_r(tt, z) ==
  LET local == tt + z.off
      days  == local \div 86400
      sod   == local % 86400
      date  == CASE days = -1 -> [tm_year |-> 69, tm_mon |-> 11, tm_mday |-> 31]
                 [] days = 0  -> [tm_year |-> 70, tm_mon |-> 0,  tm_mday |-> 1]
                 [] days = 1  -> [tm_year |-> 70, tm_mon |-> 0,  tm_mday |-> 2]
  IN  [tm_year |-> date.tm_year, tm_mon |-> date.tm_mon, tm_mday |-> date.tm_mday,
       tm_hour |-> sod \div 3600, tm_min |-> (sod % 3600) \div 60, tm_sec |-> sod % 60,
       tm_gmtoff |-> z.off, zone_known |-> z.known]

\* strftime's %z: +hhmm or -hhmm, or no characters when no timezone is determinable.
ConvZ(tm) ==
  IF ~tm.zone_known THEN <<>>
  ELSE LET a == IF tm.tm_gmtoff < 0 THEN -tm.tm_gmtoff ELSE tm.tm_gmtoff
       IN  <<IF tm.tm_gmtoff < 0 THEN 45 ELSE 43>>
             \o Dec2(a \div 3600) \o Dec2((a % 3600) \div 60)

\* One conversion specification of strftime: %Y %m %d %H %M %S %z.
Conv(c, tm) ==
  CASE c = 89  -> Dec(tm.tm_year + 1900)
    [] c = 109 -> Dec2(tm.tm_mon + 1)
    [] c = 100 -> Dec2(tm.tm_mday)
    [] c = 72  -> Dec2(tm.tm_hour)
    [] c = 77  -> Dec2(tm.tm_min)
    [] c = 83  -> Dec2(tm.tm_sec)
    [] c = 122 -> ConvZ(tm)
    [] OTHER   -> <<c>>

\* The index of the first '%' of format at or after i that has a character
\* after it, or Len(format) + 1 when there is none.
NextPercent(format, i) ==
  LET P == {j \in i..(Len(format) - 1) : format[j] = 37}
  IN  IF P = {} THEN Len(format) + 1 ELSE CHOOSE j \in P : \A k \in P : j <= k

\* The characters strftime produces for format from index i on: a '%' and the
\* character after it are a conversion, every other character stands for itself.
RECURSIVE Expand(_, _, _)
Expand(format, i, tm) ==
  LET j == NextPercent(format, i) IN
  IF j > Len(format) THEN SubSeq(format, i, Len(format))
  ELSE SubSeq(format, i, j - 1) \o Conv(format[j + 1], tm) \o Expand(format, j + 2, tm)

\* "%Y-%m-%dT%H:%M:%S"
FormatUs == <<37, 89, 45, 37, 109, 45, 37, 100, 84, 37, 72, 58, 37, 77, 58, 37, 83>>

\* "%Y-%m-%dT%H:%M:%S%z", the default format of now()
FormatDefault == FormatUs \o <<37, 122>>

\* "%Y-%m-%dT%H:%M:%S%z:"
FormatIso == FormatDefault \o <<58>>

\* A format of n literal characters 'x'.
Filler(n) == [k \in 1..n |-> 120]

\* The formats callers give to_string_view: the default one, one whose text
\* just fits the buffer with its NUL, and one whose text does not.
UserFormats == {FormatDefault, Filler(time_buf_size - 1), Filler(time_buf_size)}

\* Buffer b after chars were stored from 0-based offset pos on, inside the
\* buffer: it reaches as far as the last byte stored so far, with the zeros of
\* static initialisation between what was stored.
BufWrite(b, pos, chars) ==
  LET end  == IF pos + Len(chars) > time_buf_size THEN time_buf_size
              ELSE pos + Len(chars)
      high == IF Len(b) > end THEN Len(b) ELSE end
  IN  [k \in 1..high |->
         IF k > pos /\ k <= end THEN chars[k - pos]
         ELSE IF k <= Len(b) THEN b[k] ELSE 0]

\* std::strftime(buf, sizeof(buf), format, tm): the bytes of the buffer after
\* it and the length it returns. It stores the text and a NUL and returns the
\* text's length when they fit; when they do not it returns 0 and leaves what
\* it had stored so far; when it fails otherwise (fail) it returns 0 and
\* stores nothing.
strftime(b, maxsize, format, tm, fail) ==
  LET text == Expand(format, 1, tm) IN
  IF fail THEN [buf |-> b, len |-> 0, stored |-> 0]
  ELSE IF Len(text) + 1 > maxsize
  THEN [buf |-> BufWrite(b, 0, SubSeq(text, 1, maxsize)), len |-> 0, stored |-> maxsize]
  ELSE [buf |-> BufWrite(b, 0, Append(text, 0)), len |-> Len(text),
        stored |-> Len(text) + 1]

\* to_string_view(tp, format): the buffer after it, the size of the view it
\* returns, and the number of bytes it stored from offset 0 on.
to_string_view(b, tse, format, zone, fail) ==
  LET tp_time_t == to_time_t(tse)
      r == strftime(b, time_buf_size, format, localtime_r(tp_time_t, zone), fail)
  IN  IF r.len # 0
      THEN [buf |-> r.buf, size |-> r.len, stored |-> r.stored]
      ELSE [buf |-> BufWrite(r.buf, 0, <<0>>), size |-> 0,
            stored |-> IF r.stored = 0 THEN 1 ELSE r.stored]

\* std::rotate(buf + n - 3, buf + n - 1, buf + n): the last of the three
\* bytes before offset n comes first.
rotate(b, n) ==
  [k \in 1..Len(b) |->
     CASE k = n - 2 -> b[n]
       [] k = n - 1 -> b[n - 2]
       [] k = n     -> b[n - 1]
       [] OTHER     -> b[k]]

\* The text of std::snprintf(..., "%c%ld", '.', us): '.', then us in decimal
\* with a '-' when it is negative.
SnprintfText(us) == <<46>> \o (IF us < 0 THEN <<45>> \o Dec(-us) ELSE Dec(us))

\* std::snprintf(dst, max, ...): at most max - 1 characters of the text and a NUL.
SnprintfStored(text, max) ==
  IF max = 0 THEN <<>>
  ELSE Append(SubSeq(text, 1, IF Len(text) < max THEN Len(text) ELSE max - 1), 0)

\* ------------------------------------------------- the transformators' calls

\* No transformator has been called.
StrIdle ==
  /\ op = "none"
  /\ arg_str = <<>>
  /\ arg_null = FALSE
  /\ arg_fmt = "raw"
  /\ arg_delim = <<>>
  /\ arg_trim = Trim.none
  /\ ret_kind = "none"
  /\ ret_str = <<>>
  /\ ret_view = [pos |-> 0, len |-> 0]

\* The record of a thread that is in no time.hpp call.
NoCall ==
  [fn |-> "none", tse |-> 0, format |-> <<>>,
   zone |-> [known |-> FALSE, off |-> 0], fail |-> FALSE]

\* No thread is in a time.hpp call; the static buffers are zero-initialised.
TimeIdle ==
  /\ pc = [t \in Threads |-> "idle"]
  /\ cur = [t \in Threads |-> NoCall]
  /\ buf = [b \in Threads |-> <<>>]
  /\ stored = [t \in Threads |-> {}]
  /\ result_size = [t \in Threads |-> 0]
  /\ oob = [t \in Threads |-> {}]
  /\ ncalls = 0

InitStr == StrIdle /\ TimeIdle

Call_sparsed_string ==
  /\ op = "none"
  /\ \E input \in Inputs, input_null \in BOOLEAN,
        result_format \in Byte_format, delimiter \in Delimiters :
    /\ input_null => input = <<>>
    /\ LET r == sparsed_string(input_null, input, result_format, delimiter) IN
       /\ op' = "sparsed_string"
       /\ arg_str' = input
       /\ arg_null' = input_null
       /\ arg_fmt' = result_format
       /\ arg_delim' = delimiter
       /\ arg_trim' = Trim.none
       /\ ret_kind' = r.kind
       /\ ret_str' = r.str
       /\ ret_view' = [pos |-> 0, len |-> 0]
       /\ UNCHANGED timeVars

Call_eliminate_duplicates ==
  /\ op = "none"
  /\ \E str \in Strings :
    /\ op' = "eliminate_duplicates"
    /\ arg_str' = str
    /\ arg_null' = FALSE
    /\ arg_fmt' = "raw"
    /\ arg_delim' = <<>>
    /\ arg_trim' = Trim.none
    /\ ret_kind' = "value"
    /\ ret_str' = eliminate_duplicates(str)
    /\ ret_view' = [pos |-> 0, len |-> 0]
    /\ UNCHANGED timeVars

Call_trimmed ==
  /\ op = "none"
  /\ \E str \in Strings, trim \in TrimValues :
    /\ op' = "trimmed"
    /\ arg_str' = str
    /\ arg_null' = FALSE
    /\ arg_fmt' = "raw"
    /\ arg_delim' = <<>>
    /\ arg_trim' = trim
    /\ ret_kind' = "value"
    /\ ret_str' = trimmed(str, trim)
    /\ ret_view' = trimmed_view(str, trim)
    /\ UNCHANGED timeVars

NextStr ==
  \/ Call_sparsed_string
  \/ Call_eliminate_duplicates
  \/ Call_trimmed

SpecStr == InitStr /\ [][NextStr]_vars

\* ------------------------------------------------------ the time.hpp calls

\* No thread has brought the process down.
Running == \A t \in Threads : pc[t] \notin {"crashed", "terminated"}

\* Thread t is in no call and may start one.
MayCall(t) == Running /\ pc[t] = "idle" /\ ncalls < MaxCalls

\* The bytes each thread's call in progress has stored, after thread t stored
\* count bytes from offset from on in its buffer: they are t's now, and no
\* longer those of another thread using the same buffer. old is the record
\* before the store.
Stored(old, t, from, count) ==
  LET W == from..(from + count - 1) IN
  [u \in Threads |->
     IF u = t THEN (old[u] \cup W) \cap (0..(time_buf_size - 1))
     ELSE IF BufOf(u) = BufOf(t) THEN old[u] \ W
     ELSE old[u]]

\* Thread t enters fn, which runs to_string_view(tp, format) on its buffer.
Enter(t, fn, tse, format, zone, fail, next_pc) ==
  /\ LET r == to_string_view(buf[BufOf(t)], tse, format, zone, fail) IN
     /\ buf' = [buf EXCEPT ![BufOf(t)] = r.buf]
     /\ stored' = Stored([stored EXCEPT ![t] = {}], t, 0, r.stored)
     /\ result_size' = [result_size EXCEPT ![t] = r.size]
     /\ oob' = [oob EXCEPT ![t] = (0..(r.stored - 1)) \ (0..(time_buf_size - 1))]
  /\ cur' = [cur EXCEPT ![t] = [fn |-> fn, tse |-> tse, format |-> format,
                                zone |-> zone, fail |-> fail]]
  /\ pc' = [pc EXCEPT ![t] = next_pc]
  /\ ncalls' = ncalls + 1
  /\ UNCHANGED strVars

\* to_string_view(tp, format), called by the program.
Call_to_string_view(t) ==
  /\ MayCall(t)
  /\ \E tse \in TimePoints, format \in UserFormats, zone \in Zones, fail \in BOOLEAN :
       Enter(t, "to_string_view", tse, format, zone, fail, "returning")

\* to_string_view_iso8601(tp) up to the return of its to_string_view call.
Call_to_string_view_iso8601(t) ==
  /\ MayCall(t)
  /\ \E tse \in TimePoints, zone \in Zones, fail \in BOOLEAN :
       Enter(t, "to_string_view_iso8601", tse, FormatIso, zone, fail, "rotate")

\* to_string_view_us(tp) up to the return of its to_string_view call.
Call_to_string_view_us(t) ==
  /\ MayCall(t)
  /\ \E tse \in TimePoints, zone \in Zones, fail \in BOOLEAN :
       Enter(t, "to_string_view_us", tse, FormatUs, zone, fail, "snprintf")

\* to_string_view_iso8601: the std::rotate of the last three characters. With
\* fewer than three characters in the view the range starts in front of buf:
\* undefined behaviour, after which the build either goes on, having permuted
\* the bytes in front of buf, or traps.
Rotate(t) ==
  /\ Running
  /\ pc[t] = "rotate"
  /\ LET n == result_size[t]
         touched == {n - 3, n - 2, n - 1}
     IN  \/ /\ n >= 3
            /\ buf' = [buf EXCEPT ![BufOf(t)] = rotate(@, n)]
            /\ stored' = Stored(stored, t, n - 3, 3)
            /\ pc' = [pc EXCEPT ![t] = "returning"]
            /\ UNCHANGED oob
         \/ /\ n < 3
            /\ oob' = [oob EXCEPT ![t] = touched \ (0..(time_buf_size - 1))]
            /\ pc' = [pc EXCEPT ![t] = "returning"]
            /\ UNCHANGED <<buf, stored>>
         \/ /\ n < 3
            /\ oob' = [oob EXCEPT ![t] = touched \ (0..(time_buf_size - 1))]
            /\ pc' = [pc EXCEPT ![t] = "crashed"]
            /\ UNCHANGED <<buf, stored>>
  /\ UNCHANGED <<strVars, cur, result_size, ncalls>>

\* to_string_view_us: the microseconds appended by std::snprintf, and the
\* assertion on the length it returns (DMITIGR_ASSERT ends the process).
Snprintf(t) ==
  /\ Running
  /\ pc[t] = "snprintf"
  /\ LET dt_length == result_size[t] IN
     IF dt_length # 0
     THEN LET max_rest_length == time_buf_size - dt_length
              text == SnprintfText(us_count(cur[t].tse))
              rest_length == Len(text)
              bytes == SnprintfStored(text, max_rest_length)
          IN  /\ buf' = [buf EXCEPT ![BufOf(t)] = BufWrite(@, dt_length, bytes)]
              /\ stored' = Stored(stored, t, dt_length, Len(bytes))
              /\ oob' = [oob EXCEPT ![t] =
                           (dt_length..(dt_length + Len(bytes) - 1))
                             \ (0..(time_buf_size - 1))]
              /\ IF rest_length > 0 /\ rest_length < max_rest_length
                 THEN /\ result_size' = [result_size EXCEPT ![t] = dt_length + rest_length]
                      /\ pc' = [pc EXCEPT ![t] = "returning"]
                 ELSE /\ pc' = [pc EXCEPT ![t] = "terminated"]
                      /\ UNCHANGED result_size
     ELSE /\ pc' = [pc EXCEPT ![t] = "returning"]
          /\ UNCHANGED <<buf, stored, result_size, oob>>
  /\ UNCHANGED <<strVars, cur, ncalls>>

\* The characters of the string_view {buf, result.size()} thread t holds.
Visible(t) == SubSeq(buf[BufOf(t)], 1, result_size[t])

\* The call hands its view to the caller and is over.
Return(t) ==
  /\ Running
  /\ pc[t] = "returning"
  /\ pc' = [pc EXCEPT ![t] = "idle"]
  /\ cur' = [cur EXCEPT ![t] = NoCall]
  /\ result_size' = [result_size EXCEPT ![t] = 0]
  /\ stored' = [stored EXCEPT ![t] = {}]
  /\ oob' = [oob EXCEPT ![t] = {}]
  /\ UNCHANGED <<strVars, buf, ncalls>>

InitTime == StrIdle /\ TimeIdle

NextTime ==
  \E t \in Threads :
    \/ Call_to_string_view(t)
    \/ Call_to_string_view_iso8601(t)
    \/ Call_to_string_view_us(t)
    \/ Rotate(t)
    \/ Snprintf(t)
    \/ Return(t)

SpecTime == InitTime /\ [][NextTime]_vars

\* ------------------------------------------------ claims on transform.hpp

\* "0123456789abcdef"
HexChars == <<48, 49, 50, 51, 52, 53, 54, 55, 56, 57, 97, 98, 99, 100, 101, 102>>

\* The rendering of bytes b in groups of w characters with d between adjacent
\* groups, given character by character: offset k lies in group k \div (w + |d|),
\* inside the group when k % (w + |d|) < w and inside the delimiter after it
\* otherwise. group(byte) is the w characters one byte is rendered as.
Interleaved(b, d, w, group(_)) ==
  IF b = <<>> THEN <<>>
  ELSE [k \in 1..(Len(b) * w + (Len(b) - 1) * Len(d)) |->
          LET q == (k - 1) \div (w + Len(d))
              r == (k - 1) % (w + Len(d))
              g == group(b[q + 1])
          IN  IF r < w THEN g[r + 1] ELSE d[r - w + 1]]

HexGroup(byte) == <<HexChars[(byte \div 16) + 1], HexChars[(byte % 16) + 1]>>

RawGroup(byte) == <<byte>>

\* C1: for every byte sequence b and delimiter d, sparsed_string(b, hex, d) is
\* the two-digit lowercase hex rendering of each byte in order with d verbatim
\* between adjacent groups and nowhere else; its length is 2n + (n-1)|d| for
\* n > 0 and 0 for n = 0.
C1_HexRendering ==
  (op = "sparsed_string" /\ arg_fmt = "hex") =>
    /\ ret_kind = "value"
    /\ ret_str = Interleaved(arg_str, arg_delim, 2, HexGroup)
    /\ Len(ret_str) = IF arg_str = <<>> THEN 0
                      ELSE 2 * Len(arg_str) + (Len(arg_str) - 1) * Len(arg_delim)

\* C1, for the delimiters that hold no NUL byte: the rendering is as claimed.
C1_HexRendering_NulFreeDelimiter ==
  (op = "sparsed_string" /\ arg_fmt = "hex"
     /\ \A j \in 1..Len(arg_delim) : arg_delim[j] # 0) =>
    /\ ret_kind = "value"
    /\ ret_str = Interleaved(arg_str, arg_delim, 2, HexGroup)

\* C2: for every byte sequence b and delimiter d, sparsed_string(b, raw, d) is
\* the bytes of b unchanged and in order with d between each adjacent pair:
\* |b|-1 separators, none at the start or the end, and b itself when d is empty.
C2_RawRendering ==
  (op = "sparsed_string" /\ arg_fmt = "raw") =>
    /\ ret_kind = "value"
    /\ ret_str = Interleaved(arg_str, arg_delim, 1, RawGroup)
    /\ arg_str # <<>> =>
         Len(ret_str) = Len(arg_str) + (Len(arg_str) - 1) * Len(arg_delim)
    /\ Len(arg_str) = 1 => ret_str = arg_str
    /\ arg_delim = <<>> => ret_str = arg_str

\* A raw call on three bytes, a control character and NUL among them, with a
\* two-byte delimiter that holds a NUL.
C2_Witness ==
  /\ op = "sparsed_string" /\ arg_fmt = "raw" /\ ret_kind = "value"
  /\ arg_str = <<10, 0, 255>>
  /\ arg_delim = <<58, 0>>
  /\ ret_str = <<10, 58, 0, 0, 58, 0, 255>>

\* C3 as stated: for every input, empty or not, a Byte_format that is neither
\* raw nor hex makes sparsed_string fail with std::invalid_argument.
C3_InvalidFormatAlwaysThrows ==
  (op = "sparsed_string" /\ arg_fmt \notin {"raw", "hex"}) =>
    ret_kind = "invalid_argument"

\* C3 amended: with a Byte_format that is neither raw nor hex, sparsed_string
\* fails with std::invalid_argument for every non-empty input, whatever the
\* delimiter, and returns the empty string for an empty (or null) input.
C3_InvalidFormatThrowsOnNonEmpty ==
  (op = "sparsed_string" /\ arg_fmt \notin {"raw", "hex"}) =>
    IF arg_str # <<>>
    THEN ret_kind = "invalid_argument"
    ELSE ret_kind = "value" /\ ret_str = <<>>

\* A call with an unsupported format on a non-empty input, which threw.
C3_Witness ==
  /\ op = "sparsed_string" /\ arg_fmt = "other"
  /\ Len(arg_str) = 2 /\ arg_delim = <<58>>
  /\ ret_kind = "invalid_argument"

\* Whitespace of the C locale: '\t', '\n', '\v', '\f', '\r' and ' '.
IsSpace(c) == c \in 9..13 \/ c = 32

\* The length of the maximal leading run of whitespace of s.
LeadingRun(s) ==
  Cardinality({k \in 1..Len(s) : \A j \in 1..k : IsSpace(s[j])})

\* The length of the maximal trailing run of whitespace of s.
TrailingRun(s) ==
  Cardinality({k \in 1..Len(s) : \A j \in k..Len(s) : IsSpace(s[j])})

\* s without its leading run (when lhs) and without its trailing run (when rhs).
Stripped(s, lhs, rhs) ==
  LET a == IF lhs THEN LeadingRun(s) ELSE 0
      z == IF rhs THEN TrailingRun(s) ELSE 0
  IN  IF a + z >= Len(s) THEN <<>> ELSE SubSeq(s, a + 1, Len(s) - z)

\* C7: for every string s and Trim value t, trimmed(s, t) is s with its maximal
\* leading run of whitespace removed iff t includes lhs and its maximal trailing
\* run removed iff t includes rhs; the std::string overload and the string_view
\* overload return the same characters.
C7_Trimmed ==
  op = "trimmed" =>
    /\ ret_str = Stripped(arg_str, arg_trim \in {Trim.lhs, Trim.all},
                                   arg_trim \in {Trim.rhs, Trim.all})
    /\ ViewChars(arg_str, ret_view) = ret_str
    /\ arg_trim = Trim.none => ret_str = arg_str

\* trimmed("\n A  ", all) = "A": whitespace dropped on both sides.
C7_Witness ==
  /\ op = "trimmed" /\ arg_trim = Trim.all
  /\ arg_str = <<10, 32, 65, 32, 32>>
  /\ ret_str = <<65>>
  /\ ret_view = [pos |-> 2, len |-> 1]

\* The positions of s that hold a character for the first time.
FirstPositions(s) == {k \in 1..Len(s) : \A j \in 1..(k - 1) : s[j] # s[k]}

\* The subsequence of s at its first-occurrence positions.
FirstOccurrences(s) ==
  LET P == FirstPositions(s)
  IN  [j \in 1..Cardinality(P) |->
         s[CHOOSE p \in P : Cardinality({q \in P : q <= p}) = j]]

\* C8: after eliminate_duplicates(s), s holds each character of the original
\* exactly once, in the order of first occurrences; its length is the number of
\* distinct characters of the original.
C8_EliminateDuplicates ==
  op = "eliminate_duplicates" =>
    /\ ret_str = FirstOccurrences(arg_str)
    /\ Len(ret_str) = Cardinality({arg_str[k] : k \in 1..Len(arg_str)})
    /\ \A i, j \in 1..Len(ret_str) : i # j => ret_str[i] # ret_str[j]

\* eliminate_duplicates("AaAaA") = "Aa": two characters, each removed twice
\* or once from interleaved later positions.
C8_Witness ==
  /\ op = "eliminate_duplicates"
  /\ arg_str = <<65, 97, 65, 97, 65>>
  /\ ret_str = <<65, 97>>

\* ----------------------------------------------------- claims on time.hpp

\* The text the strftime of call c produces for format f: a function of the
\* call's timepoint and of the timezone it met, and of nothing else.
OwnText(c, f) == Expand(f, 1, localtime_r(to_time_t(c.tse), c.zone))

\* The strftime of call c reported success.
StrftimeOk(c) == ~c.fail /\ Len(OwnText(c, c.format)) < time_buf_size

IsDigit(ch) == ch \in 48..57

\* The characters at the given indices of v are decimal digits.
DigitsAt(v, I) == \A k \in I : IsDigit(v[k])

\* YYYY-MM-DDTHH:MM:SS
IsDateTimeShape(v) ==
  /\ Len(v) = 19
  /\ DigitsAt(v, {1, 2, 3, 4, 6, 7, 9, 10, 12, 13, 15, 16, 18, 19})
  /\ v[5] = 45 /\ v[8] = 45 /\ v[11] = 84 /\ v[14] = 58 /\ v[17] = 58

\* YYYY-MM-DDTHH:MM:SS+HH:MM or YYYY-MM-DDTHH:MM:SS-HH:MM
IsIso8601Shape(v) ==
  /\ Len(v) = 25
  /\ IsDateTimeShape(SubSeq(v, 1, 19))
  /\ v[20] \in {43, 45}
  /\ DigitsAt(v, {21, 22, 24, 25})
  /\ v[23] = 58

\* text, which ends with a UTC offset of sign and four digits when offset is
\* not empty, with a colon between the offset's hour and minute digits.
ColonInOffset(text, offset) ==
  IF offset = <<>> THEN text
  ELSE SubSeq(text, 1, Len(text) - 2) \o <<58>> \o SubSeq(text, Len(text) - 1, Len(text))

\* C4: for every timepoint, to_string_view_iso8601 returns a string of the
\* shape YYYY-MM-DDTHH:MM:SS+-HH:MM: strftime's characters for
\* "%Y-%m-%dT%H:%M:%S%z" with one colon between the hour and minute digits of
\* the UTC offset and no other character moved, added or removed, whatever %z
\* expands to.
C4_Iso8601 ==
  \A t \in Threads :
    (cur[t].fn = "to_string_view_iso8601" /\ pc[t] \in {"returning", "crashed"}) =>
      /\ pc[t] = "returning"
      /\ Visible(t) = ColonInOffset(OwnText(cur[t], FormatDefault),
                                    ConvZ(localtime_r(to_time_t(cur[t].tse), cur[t].zone)))
      /\ IsIso8601Shape(Visible(t))

\* C4, for the calls whose strftime succeeded with a determinable timezone:
\* the result is as claimed.
C4_Iso8601_KnownZone ==
  \A t \in Threads :
    (cur[t].fn = "to_string_view_iso8601" /\ pc[t] \in {"returning", "crashed"}
       /\ StrftimeOk(cur[t]) /\ cur[t].zone.known) =>
      /\ pc[t] = "returning"
      /\ Visible(t) = ColonInOffset(OwnText(cur[t], FormatDefault),
                                    ConvZ(localtime_r(to_time_t(cur[t].tse), cur[t].zone)))
      /\ IsIso8601Shape(Visible(t))

\* The value of the decimal digits d.
RECURSIVE DigitsValue(_)
DigitsValue(d) ==
  IF d = <<>> THEN 0
  ELSE 10 * DigitsValue(SubSeq(d, 1, Len(d) - 1)) + (d[Len(d)] - 48)

\* C5: for every timepoint whose date-time part formats successfully,
\* to_string_view_us returns YYYY-MM-DDTHH:MM:SS, '.', and exactly six decimal
\* digits giving the sub-second microseconds, zero-padded on the left, after
\* and before the epoch.
C5_Microseconds ==
  \A t \in Threads :
    (cur[t].fn = "to_string_view_us" /\ pc[t] = "returning" /\ StrftimeOk(cur[t])) =>
      LET v == Visible(t) IN
      /\ Len(v) = 26
      /\ SubSeq(v, 1, 19) = OwnText(cur[t], FormatUs)
      /\ IsDateTimeShape(SubSeq(v, 1, 19))
      /\ v[20] = 46
      /\ DigitsAt(v, 21..26)
      /\ cur[t].tse >= 0 => DigitsValue(SubSeq(v, 21, 26)) = cur[t].tse % 1000000

\* C6: whenever strftime reports failure, each of to_string_view,
\* to_string_view_iso8601 and to_string_view_us returns an empty string view
\* and raises nothing.
C6_EmptyOnFailure ==
  \A t \in Threads :
    (cur[t].fn # "none" /\ ~StrftimeOk(cur[t])) =>
      /\ pc[t] \notin {"crashed", "terminated"}
      /\ pc[t] = "returning" => result_size[t] = 0

\* C6, for to_string_view and to_string_view_us: as claimed.
C6_EmptyOnFailure_NotIso8601 ==
  \A t \in Threads :
    (cur[t].fn \in {"to_string_view", "to_string_view_us"} /\ ~StrftimeOk(cur[t])) =>
      /\ pc[t] \notin {"crashed", "terminated"}
      /\ pc[t] = "returning" => result_size[t] = 0

\* text with the last of its characters moved in front of the two before it.
LastBeforeTwo(text) ==
  LET n == Len(text)
  IN  SubSeq(text, 1, n - 3) \o <<text[n], text[n - 2], text[n - 1]>>

\* The characters call c shows its caller, from the call alone: nothing after
\* a failed strftime, and otherwise strftime's text, for the ISO format with
\* its last character moved, for the microsecond format with the suffix.
OwnChars(c) ==
  IF ~StrftimeOk(c) THEN <<>>
  ELSE CASE c.fn = "to_string_view"         -> OwnText(c, c.format)
         [] c.fn = "to_string_view_iso8601" -> LastBeforeTwo(OwnText(c, c.format))
         [] c.fn = "to_string_view_us"      ->
              OwnText(c, c.format) \o <<46>>
                \o (IF us_count(c.tse) < 0 THEN <<45>> ELSE <<>>)
                \o Dec(IF us_count(c.tse) < 0 THEN -us_count(c.tse) ELSE us_count(c.tse))

\* C9: over any sequence of calls, on one thread or interleaved across
\* threads, the characters visible in the view a call returns are determined
\* by that call's timepoint, format and timezone alone: every visible byte was
\* stored by this call on this thread, none by an earlier call or another thread.
C9_NoLeak ==
  \A t \in Threads :
    pc[t] = "returning" =>
      /\ \A k \in 0..(result_size[t] - 1) : k \in stored[t]
      /\ Visible(t) = OwnChars(cur[t])

\* A call returns a non-empty view shorter than what an earlier call of the
\* same thread, with a longer result or a failed one, left in the buffer: the
\* 'x' that call stored is still at offset 126.
C9_Witness ==
  \E t \in Threads :
    /\ pc[t] = "returning"
    /\ result_size[t] > 0 /\ result_size[t] < 100
    /\ Len(buf[BufOf(t)]) >= 127 /\ buf[BufOf(t)][127] = 120

\* C10: in every call, for every strftime outcome, every offset of the
\* thread-local buffer that is read or written lies in [0, 128): the rotation
\* in to_string_view_iso8601 stays inside the returned view, and the suffix of
\* to_string_view_us satisfies its assertion.
C10_InBounds ==
  \A t \in Threads : oob[t] = {} /\ pc[t] \notin {"crashed", "terminated"}

\* C10, for to_string_view and to_string_view_us, and for the calls of
\* to_string_view_iso8601 whose strftime succeeded: as claimed.
C10_InBounds_NotIso8601Failure ==
  \A t \in Threads :
    (cur[t].fn = "to_string_view_iso8601" => StrftimeOk(cur[t])) =>
      oob[t] = {} /\ pc[t] \notin {"crashed", "terminated"}

====
